---- MODULE Spec2Model ----
(***************************************************************************)
(* A model of project3/mytext_0.py: the counting probability distribution, *)
(* the n-gram text model built on it, the Viterbi segmenter, the shift     *)
(* cipher codec and the two decoders.                                      *)
(*                                                                         *)
(* Conventions.                                                            *)
(*  - A CountingProbDist object is a record                                *)
(*      [dictionary, default, n_obs, needs_recompute, table].              *)
(*    `dictionary` is a function whose DOMAIN is the set of keys stored in *)
(*    the Python dict; `default` is the default of the utils.DefaultDict   *)
(*    that holds it.  utils.DefaultDict is imported (line 7) and used as   *)
(*    the source uses it: reading a missing key stores a fresh copy of the *)
(*    default under that key and returns it (line 97 relies on exactly     *)
(*    this: the distribution it fetches for a new prefix must stay in      *)
(*    cond_prob, and must not be the one of another prefix).               *)
(*  - A probability is the exact quotient num/den, kept as the pair of its *)
(*    numerator and denominator (the source divides by float(n_obs)).      *)
(*  - A value returned by a method is a record [kind, val, num, den].      *)
(*  - dict.items() enumerates the stored keys in the order `order` gives:   *)
(*    any order for the distribution used alone, one fixed order for the   *)
(*    distributions inside the n-gram model and the segmenter, where the   *)
(*    table is only ever read through sample().                            *)
(*  - Each component has its own specification; the variables of the       *)
(*    other components stay at their idle values.                          *)
(***************************************************************************)
EXTENDS Integers, Sequences, FiniteSets, TLC

\* ------------------------------------------------------------------ bounds
MaxDefault == 1
NObs == 2
MaxAdds == 3
MaxOps == 2
MaxWords == 2
MaxCount == 2
MaxText == 3
MaxCipherLen == 2
MaxShift == 27
MaxTrain == 3
MaxDecodeLen == 3

\* --------------------------------------------------------------- variables
VARIABLES
    dictionary,        \* self.dictionary: the stored keys and their counts
    dflt,              \* self.dictionary.default
    n_obs,             \* self.n_obs
    needs_recompute,   \* self.needs_recompute
    table,             \* self.table
    order,             \* the enumeration order of dict.items()
    ret,               \* what the last call returned (or raised)
    lastOp,            \* the last method called
    nAdds,             \* how many add calls were made (history)
    n,                 \* NgramTextModel: self.n
    cond_prob,         \* NgramTextModel: self.cond_prob, prefix -> CountingProbDist
    lastArg,           \* the argument of the last add_sequence (history)
    nOps,              \* how many add / add_sequence calls the model took (history)
    pc,                \* samples: "idle" outside it, else the line it is at
    nwords,            \* samples: its argument
    nminus1gram,       \* samples: the rolling context
    output,            \* samples: the words produced so far
    wn,                \* samples: what the last sample() returned
    text,              \* viterbi_segment: its argument (P is the distribution above)
    words,             \* viterbi_segment: words[i], kept at index i + 1
    best,              \* viterbi_segment: best[i], kept at index i + 1
    vi,                \* viterbi_segment: i
    vj,                \* viterbi_segment: j
    sequence,          \* viterbi_segment: the words recovered so far
    vpc,               \* viterbi_segment: "idle" outside it, else where it is
    plaintext,         \* the codec: the text given
    shift,             \* the codec: the n given to shift_encode
    coded,             \* the codec: the text returned
    cpc,               \* the codec: which call returned last
    training_text,     \* the decoders: the text the models were built from
    ciphertext,        \* the decoders: the text to decode
    state,             \* PermutationDecoderProblem: the state (the code) given
    ak,                \* argmax: how many candidates have been compared
    abest,             \* argmax: the best candidate so far
    abest_score,       \* argmax: its score
    dpc                \* the decoders: "idle" outside a call, else where it is

distVars == <<dictionary, dflt, n_obs, needs_recompute, table, order, ret, lastOp, nAdds>>
ngramVars == <<n, cond_prob, lastArg, nOps, pc, nwords, nminus1gram, output, wn>>
segVars == <<text, words, best, vi, vj, sequence, vpc>>
decoderVars == <<training_text, ciphertext, state, ak, abest, abest_score, dpc>>
cipherVars == <<plaintext, shift, coded, cpc, decoderVars>>
vars == <<distVars, ngramVars, segVars, cipherVars>>

\* ------------------------------------------------------------ return values
RetNone == [kind |-> "None", val |-> 0, num |-> 0, den |-> 1]
RetObs(o) == [kind |-> "obs", val |-> o, num |-> 0, den |-> 1]
RetProb(a, b) == [kind |-> "prob", val |-> 0, num |-> a, den |-> b]
RetInt(k) == [kind |-> "int", val |-> k, num |-> 0, den |-> 1]
RetText(ws) == [kind |-> "text", val |-> ws, num |-> 0, den |-> 1]
RetError(e) == [kind |-> "error", val |-> e, num |-> 0, den |-> 1]

\* ------------------------------------------------------ utils.DefaultDict
\* d[k] on a DefaultDict: the value stored, or the default.
DDValue(d, default, k) == IF k \in DOMAIN d THEN d[k] ELSE default

\* The dict after d[k] was read: a missing key now holds the default.
DDTouch(d, default, k) == IF k \in DOMAIN d THEN d ELSE d @@ (k :> default)

\* ------------------------------------------------------- CountingProbDist
\* The sum of the counts the dict holds.
RECURSIVE SumOver(_, _)
SumOver(f, S) ==
    IF S = {} THEN 0
    ELSE LET k == CHOOSE x \in S : TRUE IN f[k] + SumOver(f, S \ {k})

SumCounts(dict) == SumOver(dict, DOMAIN dict)

\* The permutations of a finite set, as sequences.
Perms(S) ==
    {p \in [1..Cardinality(S) -> S] : \A a, b \in 1..Cardinality(S) : a # b => p[a] # p[b]}

\* The keys dict.items() yields, in order.
Items(dict, ord) == SelectSeq(ord, LAMBDA k : k \in DOMAIN dict)

\* The loop of _recompute: the running total and the table of (total, o).
RECURSIVE CumTable(_, _, _)
CumTable(dict, keys, acc) ==
    IF keys = <<>> THEN <<>>
    ELSE LET o == Head(keys)
             c == acc + dict[o]
         IN <<<<c, o>>>> \o CumTable(dict, Tail(keys), c)

\* CountingProbDist.__init__ with no observations.
NewDist(default) ==
    [dictionary |-> <<>>, default |-> default, n_obs |-> 0,
     needs_recompute |-> FALSE, table |-> <<>>]

\* CountingProbDist.add
add(d, o) ==
    [d EXCEPT !.dictionary = [DDTouch(d.dictionary, d.default, o) EXCEPT ![o] = @ + 1],
              !.n_obs = d.n_obs + 1,
              !.needs_recompute = TRUE]

\* CountingProbDist._recompute
recompute(d, ord) ==
    [d EXCEPT !.n_obs = SumCounts(d.dictionary),
              !.table = CumTable(d.dictionary, Items(d.dictionary, ord), 0),
              !.needs_recompute = FALSE]

\* "if self.needs_recompute: self._recompute()", the first line of every read.
Fresh(d, ord) == IF d.needs_recompute THEN recompute(d, ord) ELSE d

\* CountingProbDist.__getitem__: the object after the call, and what it returns.
\* The dict is read (and a missing key stored) before the division is made.
getitem(d, item, ord) ==
    LET f == Fresh(d, ord)
        g == [f EXCEPT !.dictionary = DDTouch(f.dictionary, f.default, item)]
    IN [self |-> g,
        ret |-> IF g.n_obs = 0 THEN RetError("ZeroDivisionError")
                ELSE RetProb(g.dictionary[item], g.n_obs)]

\* CountingProbDist.__len__
len(d, ord) ==
    LET f == Fresh(d, ord) IN [self |-> f, ret |-> RetInt(f.n_obs)]

\* bisect.bisect_left(table, (x,)): the first index whose entry is not below
\* (x,), that is, whose running total is at least x; past the end if none.
bisect_left(tbl, x) ==
    LET hits == {i \in 1..Len(tbl) : tbl[i][1] >= x}
    IN IF hits = {} THEN Len(tbl) + 1
       ELSE CHOOSE i \in hits : \A k \in hits : i <= k

\* CountingProbDist.sample, r being what random.randrange(self.n_obs) drew.
sample(d, r, ord) ==
    LET f == Fresh(d, ord)
        i == bisect_left(f.table, 1 + r)
    IN [self |-> f,
        ret |-> IF f.n_obs = 0 THEN RetNone
                ELSE IF i > Len(f.table) THEN RetError("IndexError")
                ELSE RetObs(f.table[i][2])]

\* The values random.randrange(k) can draw (none is drawn when k = 0).
Draws(k) == IF k = 0 THEN {0} ELSE 0..(k - 1)

\* The object the fields make up.
Self ==
    [dictionary |-> dictionary, default |-> dflt, n_obs |-> n_obs,
     needs_recompute |-> needs_recompute, table |-> table]

SetSelf(d) ==
    /\ dictionary' = d.dictionary
    /\ dflt' = d.default
    /\ n_obs' = d.n_obs
    /\ needs_recompute' = d.needs_recompute
    /\ table' = d.table

\* --------------------------------------------------------- NgramTextModel
\* The words: the empty word (add_sequence's padding) and two others.
Tok == {"", "a", "b"}

\* The word lists add_sequence is given.
SeqTok == {"a", "b"}

Orders == 1..3

\* All sequences over S of length k, and of length at most k.
Tuples(S, k) == [1..k -> S]

TuplesUpTo(S, k) == UNION {Tuples(S, j) : j \in 0..k}

\* The word lists add_sequence is given: the short ones, and three longer.
Sentences ==
    TuplesUpTo(SeqTok, 2) \cup {<<"a", "b", "a">>, <<"a", "a", "b">>, <<"a", "b", "a", "b">>}

\* Python's s[a:b] for 0 <= a, b (0-based, b exclusive, clipped to the length).
Slice(s, a, b) ==
    LET hi == IF b > Len(s) THEN Len(s) ELSE b
    IN IF a >= hi THEN <<>> ELSE SubSeq(s, a + 1, hi)

\* Where Python puts the bound k of a slice of a string of length l.
SliceBound(l, k) ==
    IF k < 0 THEN (IF l + k < 0 THEN 0 ELSE l + k)
    ELSE IF k > l THEN l ELSE k

\* s[k:] and s[:k] for any integer k.
SliceFrom(s, k) == Slice(s, SliceBound(Len(s), k), Len(s))

SliceTo(s, k) == Slice(s, 0, SliceBound(Len(s), k))

\* ('',) * k
Sentinels(k) == [i \in 1..k |-> ""]

\* ngram_add with the conditional distribution looked up under ngram[1:].
ngram_add_tail_key(m, ngram) ==
    LET prefix == SliceFrom(ngram, 1)
        last == ngram[Len(ngram)]
        cp == DDTouch(m.cond, NewDist(0), prefix)
    IN [joint |-> add(m.joint, ngram),
        cond |-> [cp EXCEPT ![prefix] = add(@, last)]]

\* NgramTextModel.add on the model m = [joint, cond]: count the n-gram in the
\* joint distribution and its last word under its first words.
ngram_add(m, ngram) ==
    LET prefix == SliceTo(ngram, -1)
        last == ngram[Len(ngram)]
        cp == DDTouch(m.cond, NewDist(0), prefix)
    IN [joint |-> add(m.joint, ngram),
        cond |-> [cp EXCEPT ![prefix] = add(@, last)]]

\* add_windows with every window of the padded list: range(len(words)-n+1).
RECURSIVE add_every_window(_, _, _, _)
add_every_window(m, k, padded, i) ==
    IF i > Len(padded) - k THEN m
    ELSE add_every_window(ngram_add(m, Slice(padded, i, i + k)), k, padded, i + 1)

\* The loop of add_sequence from index i on: "for i in range(len(words)-n)".
RECURSIVE add_windows(_, _, _, _)
add_windows(m, k, padded, i) ==
    IF i >= Len(padded) - k THEN m
    ELSE add_windows(ngram_add(m, Slice(padded, i, i + k)), k, padded, i + 1)

\* NgramTextModel.add_sequence
add_sequence(m, k, ws) == add_windows(m, k, Sentinels(k - 1) \o ws, 0)

\* Python's truth of what sample() returned: None and '' are false.
Truthy(r) == r.kind = "obs" /\ r.val # ""

\* The NgramTextModel the fields make up.
Model == [joint |-> Self, cond |-> cond_prob]

SetModel(m) == SetSelf(m.joint) /\ cond_prob' = m.cond

IdleNgram ==
    /\ n = 0
    /\ cond_prob = <<>>
    /\ lastArg = <<>>
    /\ nOps = 0
    /\ pc = "idle"
    /\ nwords = 0
    /\ nminus1gram = <<>>
    /\ output = <<>>
    /\ wn = RetNone

IdleSegment ==
    /\ text = <<>>
    /\ words = <<>>
    /\ best = <<>>
    /\ vi = 0
    /\ vj = 0
    /\ sequence = <<>>
    /\ vpc = "idle"

IdleDecoder ==
    /\ training_text = <<>>
    /\ ciphertext = <<>>
    /\ state = <<>>
    /\ ak = 0
    /\ abest = <<>>
    /\ abest_score = <<1, 1>>
    /\ dpc = "idle"

IdleCodec ==
    /\ plaintext = <<>>
    /\ shift = 0
    /\ coded = <<>>
    /\ cpc = "idle"

IdleCipher == IdleCodec /\ IdleDecoder

\* NgramTextModel(n): an empty model (observation_sequence = []).
InitNgram ==
    /\ n \in Orders
    /\ dictionary = <<>>
    /\ dflt = 0
    /\ n_obs = 0
    /\ needs_recompute = FALSE
    /\ table = <<>>
    /\ order = <<"", "a", "b">>
    /\ ret = RetNone
    /\ lastOp = "init"
    /\ nAdds = 0
    /\ cond_prob = <<>>
    /\ lastArg = <<>>
    /\ nOps = 0
    /\ pc = "idle"
    /\ nwords = 0
    /\ nminus1gram = <<>>
    /\ output = <<>>
    /\ wn = RetNone
    /\ IdleSegment
    /\ IdleCipher

genVars == <<nwords, nminus1gram, output, wn>>

NgAdd ==
    \E ngram \in Tuples(Tok, n) :
        /\ pc = "idle"
        /\ nOps < MaxOps
        /\ SetModel(ngram_add(Model, ngram))
        /\ nOps' = nOps + 1
        /\ nAdds' = nAdds + 1
        /\ lastOp' = "add"
        /\ lastArg' = <<>>
        /\ ret' = RetNone
        /\ UNCHANGED <<n, order, pc, genVars, segVars, cipherVars>>

NgAddSequence ==
    \E ws \in Sentences :
        /\ pc = "idle"
        /\ nOps < MaxOps
        /\ SetModel(add_sequence(Model, n, ws))
        /\ nOps' = nOps + 1
        /\ nAdds' = add_sequence(Model, n, ws).joint.n_obs - n_obs + nAdds
        /\ lastOp' = "add_sequence"
        /\ lastArg' = ws
        /\ ret' = RetNone
        /\ UNCHANGED <<n, order, pc, genVars, segVars, cipherVars>>

\* samples(nwords), lines 109-111.
GenStart ==
    \E k \in 0..MaxWords :
        /\ pc = "idle"
        /\ nwords' = k
        /\ nminus1gram' = Sentinels(n - 1)
        /\ output' = <<>>
        /\ wn' = RetNone
        /\ pc' = "while"
        /\ lastOp' = "samples"
        /\ lastArg' = <<>>
        /\ ret' = RetNone
        /\ UNCHANGED <<dictionary, dflt, n_obs, needs_recompute, table, order, nAdds,
                       n, cond_prob, nOps, segVars, cipherVars>>

\* Lines 112-113: the loop goes on, and a word is sampled given the context.
GenSample ==
    /\ pc = "while"
    /\ Len(output) < nwords
    /\ LET cp == DDTouch(cond_prob, NewDist(0), nminus1gram)
       IN \E k \in Draws(Fresh(cp[nminus1gram], order).n_obs) :
            LET r == sample(cp[nminus1gram], k, order)
            IN /\ cond_prob' = [cp EXCEPT ![nminus1gram] = r.self]
               /\ wn' = r.ret
    /\ pc' = "if"
    /\ UNCHANGED <<distVars, n, lastArg, nOps, nwords, nminus1gram, output, segVars, cipherVars>>

\* Lines 114-116: a word was sampled.
GenAppend ==
    /\ pc = "if"
    /\ Truthy(wn)
    /\ output' = Append(output, wn.val)
    /\ nminus1gram' = SliceFrom(nminus1gram, 1) \o <<wn.val>>
    /\ pc' = "while"
    /\ UNCHANGED <<distVars, n, cond_prob, lastArg, nOps, nwords, wn, segVars, cipherVars>>

\* Lines 117-118: nothing was sampled, so restart.
GenRestart ==
    /\ pc = "if"
    /\ ~Truthy(wn)
    /\ nminus1gram' = Sentinels(n - 1)
    /\ pc' = "while"
    /\ UNCHANGED <<distVars, n, cond_prob, lastArg, nOps, nwords, output, wn, segVars, cipherVars>>

\* Line 119: the loop is over.
GenReturn ==
    /\ pc = "while"
    /\ Len(output) >= nwords
    /\ ret' = RetText(output)
    /\ pc' = "idle"
    /\ UNCHANGED <<dictionary, dflt, n_obs, needs_recompute, table, order, lastOp, nAdds,
                   n, cond_prob, lastArg, nOps, genVars, segVars, cipherVars>>

NextNgram == NgAdd \/ NgAddSequence \/ GenStart \/ GenSample \/ GenAppend \/ GenRestart \/ GenReturn

SpecNgram == InitNgram /\ [][NextNgram]_vars

\* samples runs on once called, and a word that can be sampled again and
\* again is sampled in the end.
FairNgram ==
    /\ SpecNgram
    /\ WF_vars(GenSample)
    /\ WF_vars(GenAppend)
    /\ WF_vars(GenRestart)
    /\ WF_vars(GenReturn)
    /\ SF_vars(GenSample /\ Truthy(wn'))

\* ------------------------------------------- a CountingProbDist in use
Obs == 1..NObs

InitDist ==
    /\ dflt \in 0..MaxDefault
    /\ dictionary = <<>>
    /\ n_obs = 0
    /\ needs_recompute = FALSE
    /\ table = <<>>
    /\ order \in Perms(Obs)
    /\ ret = RetNone
    /\ lastOp = "init"
    /\ nAdds = 0
    /\ IdleNgram
    /\ IdleSegment
    /\ IdleCipher

Add ==
    \E o \in Obs :
        /\ nAdds < MaxAdds
        /\ SetSelf(add(Self, o))
        /\ nAdds' = nAdds + 1
        /\ lastOp' = "add"
        /\ ret' = RetNone
        /\ UNCHANGED <<order, ngramVars, segVars, cipherVars>>

GetItem ==
    \E o \in Obs :
        LET r == getitem(Self, o, order)
        IN /\ SetSelf(r.self)
           /\ ret' = r.ret
           /\ lastOp' = "getitem"
           /\ UNCHANGED <<order, nAdds, ngramVars, segVars, cipherVars>>

Length ==
    LET r == len(Self, order)
    IN /\ SetSelf(r.self)
       /\ ret' = r.ret
       /\ lastOp' = "len"
       /\ UNCHANGED <<order, nAdds, ngramVars, segVars, cipherVars>>

Sample ==
    \E k \in Draws(Fresh(Self, order).n_obs) :
        LET r == sample(Self, k, order)
        IN /\ SetSelf(r.self)
           /\ ret' = r.ret
           /\ lastOp' = "sample"
           /\ UNCHANGED <<order, nAdds, ngramVars, segVars, cipherVars>>

NextDist == Add \/ GetItem \/ Length \/ Sample

SpecDist == InitDist /\ [][NextDist]_vars

\* -------------------------------------------------------- viterbi_segment
\* The letters of the texts, and the words the unigram model is trained on.
Letters == {"a", "b"}

Vocab == {<<"a">>, <<"b">>, <<"a", "b">>, <<"b", "a">>}

\* Every word a text can hold or the model can know.
WordUniverse == (TuplesUpTo(Letters, MaxText) \cup Vocab) \ {<<>>}

\* A finite set as a sequence, in an order fixed once and for all.
RECURSIVE SeqOf(_)
SeqOf(S) ==
    IF S = {} THEN <<>>
    ELSE LET x == CHOOSE y \in S : TRUE IN <<x>> \o SeqOf(S \ {x})

\* Exact products and comparisons of quotients <<numerator, denominator>>.
Mul(p, q) == <<p[1] * q[1], p[2] * q[2]>>

Geq(p, q) == p[1] * q[2] >= q[1] * p[2]

Same(p, q) == p[1] * q[2] = q[1] * p[2]

\* CountingProbDist.__init__ with observations: o is added cnt[o] times.
RECURSIVE AddTimes(_, _, _)
AddTimes(d, o, k) == IF k = 0 THEN d ELSE AddTimes(add(d, o), o, k - 1)

RECURSIVE Observe(_, _, _)
Observe(d, cnt, S) ==
    IF S = {} THEN d
    ELSE LET o == CHOOSE x \in S : TRUE
         IN Observe(AddTimes(d, o, cnt[o]), cnt, S \ {o})

\* Keeps with the comparison turned round: "<=" for ">=".
KeepsNoBetter(cand, cur) == Geq(cur, cand)

\* Keeps with a strict comparison: ">" for ">=".
KeepsOnlyBetter(cand, cur) == ~Geq(cur, cand)

\* Line 136: is the candidate kept?
Keeps(cand, cur) == Geq(cand, cur)

\* viterbi_step with the word cut from the start of the text: text[0:i] for
\* text[j:i].
viterbi_step_from_start(bst, wds, i, j, pw) ==
    LET w == Slice(text, 0, i)
        cand == Mul(pw, bst[i - Len(w) + 1])
    IN IF Keeps(cand, bst[i + 1])
       THEN [best |-> [bst EXCEPT ![i + 1] = cand], words |-> [wds EXCEPT ![i + 1] = w]]
       ELSE [best |-> bst, words |-> wds]

\* Lines 135-138 for one (i, j), pw being P[w]: best and words afterwards.
viterbi_step(bst, wds, i, j, pw) ==
    LET w == Slice(text, j, i)
        cand == Mul(pw, bst[i - Len(w) + 1])
    IN IF Keeps(cand, bst[i + 1])
       THEN [best |-> [bst EXCEPT ![i + 1] = cand], words |-> [wds EXCEPT ![i + 1] = w]]
       ELSE [best |-> bst, words |-> wds]

\* viterbi_segment(text, P) is called with a trained P (default 0 or more)
\* and a text.
InitSegment ==
    /\ \E d \in 0..MaxDefault, cnt \in [Vocab -> 0..MaxCount] :
         LET P == Observe(NewDist(d), cnt, Vocab)
         IN /\ dictionary = P.dictionary
            /\ dflt = P.default
            /\ n_obs = P.n_obs
            /\ needs_recompute = P.needs_recompute
            /\ table = P.table
            /\ nAdds = P.n_obs
    /\ order = SeqOf(WordUniverse)
    /\ ret = RetNone
    /\ lastOp = "init"
    /\ text \in TuplesUpTo(Letters, MaxText)
    /\ words = <<>>
    /\ best = <<>>
    /\ vi = 0
    /\ vj = 0
    /\ sequence = <<>>
    /\ vpc = "idle"
    /\ IdleNgram
    /\ IdleCipher

\* Lines 129-133: the vectors, and the first (i, j) the loops reach.
SegStart ==
    /\ vpc = "idle"
    /\ words' = <<<<>>>> \o [k \in 1..Len(text) |-> <<text[k]>>]
    /\ best' = <<<<1, 1>>>> \o [k \in 1..Len(text) |-> <<0, 1>>]
    /\ vi' = 1
    /\ vj' = 0
    /\ vpc' = "for"
    /\ lastOp' = "viterbi_segment"
    /\ UNCHANGED <<dictionary, dflt, n_obs, needs_recompute, table, order, ret, nAdds,
                   text, sequence, ngramVars, cipherVars>>

\* Lines 134-138: one pass of the inner loop, then on to the next (i, j).
\* P[w] is read twice (lines 136 and 137); the second read changes nothing.
SegStep ==
    /\ vpc = "for"
    /\ vi <= Len(text)
    /\ LET r == getitem(Self, Slice(text, vj, vi), order)
       IN /\ r.ret.kind = "prob"
          /\ SetSelf(r.self)
          /\ LET s == viterbi_step(best, words, vi, vj, <<r.ret.num, r.ret.den>>)
             IN best' = s.best /\ words' = s.words
    /\ IF vj + 1 < vi THEN vi' = vi /\ vj' = vj + 1 ELSE vi' = vi + 1 /\ vj' = 0
    /\ UNCHANGED <<order, ret, lastOp, nAdds, text, sequence, vpc, ngramVars, cipherVars>>

\* Line 136 when P[w] raises: the call ends there.
SegRaise ==
    /\ vpc = "for"
    /\ vi <= Len(text)
    /\ LET r == getitem(Self, Slice(text, vj, vi), order)
       IN /\ r.ret.kind = "error"
          /\ SetSelf(r.self)
          /\ ret' = r.ret
    /\ vpc' = "raised"
    /\ UNCHANGED <<order, lastOp, nAdds, text, words, best, vi, vj, sequence,
                   ngramVars, cipherVars>>

\* Line 140: the loops are over.
SegLoopEnd ==
    /\ vpc = "for"
    /\ vi > Len(text)
    /\ sequence' = <<>>
    /\ vi' = Len(words) - 1
    /\ vpc' = "while"
    /\ UNCHANGED <<distVars, text, words, best, vj, ngramVars, cipherVars>>

\* Lines 141-143: one more word is put in front.
SegBack ==
    /\ vpc = "while"
    /\ vi > 0
    /\ sequence' = <<words[vi + 1]>> \o sequence
    /\ vi' = vi - Len(words[vi + 1])
    /\ UNCHANGED <<distVars, text, words, best, vj, vpc, ngramVars, cipherVars>>

\* Line 145: return sequence, best[-1].
SegReturn ==
    /\ vpc = "while"
    /\ vi <= 0
    /\ ret' = [kind |-> "seg", val |-> sequence,
               num |-> best[Len(best)][1], den |-> best[Len(best)][2]]
    /\ vpc' = "done"
    /\ UNCHANGED <<dictionary, dflt, n_obs, needs_recompute, table, order, lastOp, nAdds,
                   text, words, best, vi, vj, sequence, ngramVars, cipherVars>>

NextSegment == SegStart \/ SegStep \/ SegRaise \/ SegLoopEnd \/ SegBack \/ SegReturn

SpecSegment == InitSegment /\ [][NextSegment]_vars

\* ------------------------------------------------------------- the codec
\* A character is a number: 0..25 are 'a'..'z', 26..51 are 'A'..'Z', and
\* 52, 53, 54 stand for a digit, a punctuation mark and a blank.
NLetters == 26

Others == {52, 53, 54}

Chars == 0..(2 * NLetters - 1) \cup Others

\* alphabet = 'abcdefghijklmnopqrstuvwxyz' (line 275)
alphabet == [k \in 1..NLetters |-> k - 1]

\* str.upper()
upper(str) == [k \in 1..Len(str) |-> IF str[k] < NLetters THEN str[k] + NLetters ELSE str[k]]

\* string.maketrans(from, to): each from[k] goes to to[k], the rest stays.
maketrans(from, to) ==
    [c \in Chars |->
        IF \E k \in 1..Len(from) : from[k] = c
        THEN to[CHOOSE k \in 1..Len(from) : from[k] = c]
        ELSE c]

\* encode without the upper-case half of the code.
encode_lower_code(str, code) ==
    LET trans == maketrans(alphabet \o upper(alphabet), code \o code)
    IN [k \in 1..Len(str) |-> trans[str[k]]]

\* encode(plaintext, code)
encode(str, code) ==
    LET trans == maketrans(alphabet \o upper(alphabet), code \o upper(code))
    IN [k \in 1..Len(str) |-> trans[str[k]]]

\* shift_encode(plaintext, n)
shift_encode(str, k) == encode(str, SliceFrom(alphabet, k) \o SliceTo(alphabet, k))

\* rot13(plaintext)
rot13(str) == shift_encode(str, 13)

\* The characters the short texts are made of: 'a', 'm', 'n', 'z', 'A', 'N',
\* 'Z', and the three that are no letters.
CharSample == {0, 12, 13, 25, 26, 39, 51} \cup Others

\* The texts: the short ones, and the whole alphabets.
CipherTexts ==
    TuplesUpTo(CharSample, MaxCipherLen)
        \cup {alphabet, upper(alphabet), alphabet \o <<52, 53, 54>> \o upper(alphabet)}

Shifts == (0 - MaxShift)..MaxShift

InitCipher ==
    /\ plaintext \in CipherTexts
    /\ shift = 0
    /\ coded = <<>>
    /\ cpc = "idle"
    /\ dictionary = <<>>
    /\ dflt = 0
    /\ n_obs = 0
    /\ needs_recompute = FALSE
    /\ table = <<>>
    /\ order = <<>>
    /\ ret = RetNone
    /\ lastOp = "init"
    /\ nAdds = 0
    /\ IdleNgram
    /\ IdleSegment
    /\ IdleDecoder

\* shift_encode(plaintext, k)
ShiftEncode ==
    \E k \in Shifts :
        /\ cpc = "idle"
        /\ shift' = k
        /\ coded' = shift_encode(plaintext, k)
        /\ cpc' = "shift_encode"
        /\ UNCHANGED <<distVars, ngramVars, segVars, plaintext, decoderVars>>

\* rot13(plaintext)
Rot13 ==
    /\ cpc = "idle"
    /\ shift' = 13
    /\ coded' = rot13(plaintext)
    /\ cpc' = "rot13"
    /\ UNCHANGED <<distVars, ngramVars, segVars, plaintext, decoderVars>>

\* rot13 of what rot13 returned
Rot13Again ==
    /\ cpc = "rot13"
    /\ coded' = rot13(coded)
    /\ cpc' = "rot13rot13"
    /\ UNCHANGED <<distVars, ngramVars, segVars, plaintext, shift, decoderVars>>

NextCipher == ShiftEncode \/ Rot13 \/ Rot13Again

SpecCipher == InitCipher /\ [][NextCipher]_vars

\* ------------------------------------------------------------ ShiftDecoder
Digit == 52

Blank == 54

\* str.lower()
lower(str) == [k \in 1..Len(str) |-> IF str[k] \in NLetters..(2 * NLetters - 1) THEN str[k] - NLetters ELSE str[k]]

\* The characters the pattern [a-z0-9] matches.
IsWordChar(c) == c \in 0..(NLetters - 1) \/ c = Digit

\* reg.findall: the maximal runs of word characters, from left to right;
\* cur is the run being read.
RECURSIVE findall(_, _)
findall(str, cur) ==
    IF str = <<>> THEN (IF cur = <<>> THEN <<>> ELSE <<cur>>)
    ELSE IF IsWordChar(Head(str)) THEN findall(Tail(str), Append(cur, Head(str)))
    ELSE (IF cur = <<>> THEN <<>> ELSE <<cur>>) \o findall(Tail(str), <<>>)

\* words(text)
words_in(str) == findall(lower(str), <<>>)

\* sep.join(ws)
RECURSIVE join(_, _)
join(sep, ws) ==
    IF ws = <<>> THEN <<>>
    ELSE IF Len(ws) = 1 THEN Head(ws)
    ELSE Head(ws) \o sep \o join(sep, Tail(ws))

\* canonicalize(text)
canonicalize(str) == join(<<Blank>>, words_in(str))

\* bigrams(text), for a string
bigrams(str) == [k \in 1..(Len(str) - 1) |-> <<str[k], str[k + 1]>>]

\* CountingProbDist.__init__: "for o in observations: self.add(o)"
RECURSIVE AddAll(_, _)
AddAll(d, obs) == IF obs = <<>> THEN d ELSE AddAll(add(d, Head(obs)), Tail(obs))

\* The loop of ShiftDecoder.score over the bigrams left, s being the product
\* so far: the distribution afterwards, and the score or the error raised.
RECURSIVE score_loop(_, _, _, _)
score_loop(d, bis, s, ord) ==
    IF bis = <<>> THEN [self |-> d, ret |-> RetProb(s[1], s[2])]
    ELSE LET r == getitem(d, Head(bis), ord)
         IN IF r.ret.kind = "error" THEN r
            ELSE score_loop(r.self, Tail(bis), Mul(s, <<r.ret.num, r.ret.den>>), ord)

\* ShiftDecoder.score(plaintext)
score(d, str, ord) == score_loop(d, bigrams(str), <<1, 1>>, ord)

\* all_shifts(text)
all_shifts(str) == [k \in 1..Len(alphabet) |-> shift_encode(str, k - 1)]

\* The texts the decoder is trained on: 'a', 'b', 'A' and a punctuation mark.
TrainChars == {0, 1, 26, 53}

TrainTexts == TuplesUpTo(TrainChars, MaxTrain)

\* The texts it is given to decode: 'a', 'B' and blanks.
DecodeChars == {0, 27, Blank}

DecodeTexts == TuplesUpTo(DecodeChars, MaxDecodeLen)

\* ShiftDecoder(training_text), and a ciphertext to give to decode.
InitShiftDecoder ==
    /\ training_text \in TrainTexts
    /\ ciphertext \in DecodeTexts
    /\ LET P2 == AddAll(NewDist(1), bigrams(canonicalize(training_text)))
       IN /\ dictionary = P2.dictionary
          /\ dflt = P2.default
          /\ n_obs = P2.n_obs
          /\ needs_recompute = P2.needs_recompute
          /\ table = P2.table
          /\ nAdds = P2.n_obs
          /\ order = SeqOf(DOMAIN P2.dictionary)
    /\ ret = RetNone
    /\ lastOp = "init"
    /\ state = <<>>
    /\ ak = 0
    /\ abest = <<>>
    /\ abest_score = <<1, 1>>
    /\ dpc = "idle"
    /\ IdleNgram
    /\ IdleSegment
    /\ IdleCodec

\* decode(ciphertext): argmax is entered with the 26 shifts, and takes the
\* first of them as the best so far.
SdDecode ==
    /\ dpc = "idle"
    /\ abest' = all_shifts(ciphertext)[1]
    /\ lastOp' = "decode"
    /\ dpc' = "first"
    /\ UNCHANGED <<dictionary, dflt, n_obs, needs_recompute, table, order, ret, nAdds,
                   ngramVars, segVars, plaintext, shift, coded, cpc,
                   training_text, ciphertext, state, ak, abest_score>>

\* argmax: the score of the first candidate is the best score so far.
SdFirst ==
    /\ dpc = "first"
    /\ LET r == score(Self, abest, order)
       IN /\ r.ret.kind = "prob"
          /\ SetSelf(r.self)
          /\ abest_score' = <<r.ret.num, r.ret.den>>
    /\ ak' = 0
    /\ dpc' = "loop"
    /\ UNCHANGED <<order, ret, lastOp, nAdds, ngramVars, segVars, plaintext, shift, coded,
                   cpc, training_text, ciphertext, state, abest>>

\* argmax: the next candidate is scored, and kept if its score is greater
\* than the best so far.
SdStep ==
    /\ dpc = "loop"
    /\ ak < Len(alphabet)
    /\ LET x == all_shifts(ciphertext)[ak + 1]
           r == score(Self, x, order)
       IN /\ r.ret.kind = "prob"
          /\ SetSelf(r.self)
          /\ IF ~Geq(abest_score, <<r.ret.num, r.ret.den>>)
             THEN abest' = x /\ abest_score' = <<r.ret.num, r.ret.den>>
             ELSE UNCHANGED <<abest, abest_score>>
    /\ ak' = ak + 1
    /\ UNCHANGED <<order, ret, lastOp, nAdds, ngramVars, segVars, plaintext, shift, coded,
                   cpc, training_text, ciphertext, state, dpc>>

\* score raises (line 300): decode ends there.
SdRaise ==
    /\ dpc = "first"
    /\ LET r == score(Self, abest, order)
       IN /\ r.ret.kind = "error"
          /\ SetSelf(r.self)
          /\ ret' = r.ret
    /\ dpc' = "raised"
    /\ UNCHANGED <<order, lastOp, nAdds, ngramVars, segVars, plaintext, shift, coded, cpc,
                   training_text, ciphertext, state, ak, abest, abest_score>>

\* argmax, and decode with it, returns the best candidate.
SdReturn ==
    /\ dpc = "loop"
    /\ ak = Len(alphabet)
    /\ ret' = RetText(abest)
    /\ dpc' = "done"
    /\ UNCHANGED <<dictionary, dflt, n_obs, needs_recompute, table, order, lastOp, nAdds,
                   ngramVars, segVars, plaintext, shift, coded, cpc,
                   training_text, ciphertext, state, ak, abest, abest_score>>

NextShiftDecoder == SdDecode \/ SdFirst \/ SdStep \/ SdRaise \/ SdReturn

SpecShiftDecoder == InitShiftDecoder /\ [][NextShiftDecoder]_vars

\* ------------------------------------------------------ PermutationDecoder
\* A state of the search is a dict from letters to letters, here a function
\* on the letters assigned so far.
\* "for c in alphabet if c not in state", in the order of the alphabet.
unassigned(st) == SelectSeq(alphabet, LAMBDA c : c \notin DOMAIN st)

\* Line 356: self.decoder.P1[c] is read for each such c in turn; the
\* distribution afterwards, and the error if a read raised.
RECURSIVE read_all(_, _, _)
read_all(d, cs, ord) ==
    IF cs = <<>> THEN [self |-> d, ret |-> RetNone]
    ELSE LET r == getitem(d, Head(cs), ord)
         IN IF r.ret.kind = "error" THEN r ELSE read_all(r.self, Tail(cs), ord)

\* PermutationDecoderProblem.successors(state): the reads of line 356, max()
\* of what they gave (of an empty list it raises ValueError), then line 358,
\* which names cipherchar, a name bound nowhere: NameError.  No line of the
\* method returns a list.
successors(d, st, ord) ==
    LET r == read_all(d, unassigned(st), ord)
    IN IF r.ret.kind = "error" THEN r
       ELSE IF unassigned(st) = <<>> THEN [self |-> r.self, ret |-> RetError("ValueError")]
       ELSE [self |-> r.self, ret |-> RetError("NameError")]

\* PermutationDecoderProblem.goal_test(state)
goal_test(st) == Cardinality(DOMAIN st) >= NLetters

\* PermutationDecoder.score(ciphertext, code): line 343 calls decode, a name
\* bound to no function of the module (only methods are called decode):
\* NameError, before any probability is read.
permutation_score(d, str, code) == [self |-> d, ret |-> RetError("NameError")]

\* The states given: none, one, two, all but one and all letters assigned,
\* each letter to itself or to the next one.
States ==
    {[c \in D |-> (c + s) % NLetters] :
        D \in {{}, {0}, {0, 1}, 0..(NLetters - 2), 0..(NLetters - 1)}, s \in {0, 1}}

\* A decoder whose P1 = UnigramTextModel(training_text) counts the characters
\* of the training text (line 329), a state and a ciphertext.
InitPermutation ==
    /\ training_text \in TrainTexts
    /\ ciphertext \in DecodeTexts
    /\ state \in States
    /\ LET P1 == AddAll(NewDist(0), training_text)
       IN /\ dictionary = P1.dictionary
          /\ dflt = P1.default
          /\ n_obs = P1.n_obs
          /\ needs_recompute = P1.needs_recompute
          /\ table = P1.table
          /\ nAdds = P1.n_obs
          /\ order = SeqOf(DOMAIN P1.dictionary)
    /\ ret = RetNone
    /\ lastOp = "init"
    /\ ak = 0
    /\ abest = <<>>
    /\ abest_score = <<1, 1>>
    /\ dpc = "idle"
    /\ IdleNgram
    /\ IdleSegment
    /\ IdleCodec

\* problem.successors(state)
PdSuccessors ==
    /\ dpc = "idle"
    /\ LET r == successors(Self, state, order)
       IN /\ SetSelf(r.self)
          /\ ret' = r.ret
          /\ dpc' = IF r.ret.kind = "error" THEN "raised" ELSE "done"
    /\ lastOp' = "successors"
    /\ UNCHANGED <<order, nAdds, ngramVars, segVars, plaintext, shift, coded, cpc,
                   training_text, ciphertext, state, ak, abest, abest_score>>

\* problem.goal_test(state)
PdGoalTest ==
    /\ dpc = "idle"
    /\ ret' = [kind |-> "bool", val |-> goal_test(state), num |-> 0, den |-> 1]
    /\ lastOp' = "goal_test"
    /\ dpc' = "done"
    /\ UNCHANGED <<dictionary, dflt, n_obs, needs_recompute, table, order, nAdds,
                   ngramVars, segVars, plaintext, shift, coded, cpc,
                   training_text, ciphertext, state, ak, abest, abest_score>>

\* decoder.score(ciphertext, state)
PdScore ==
    /\ dpc = "idle"
    /\ LET r == permutation_score(Self, ciphertext, state)
       IN /\ SetSelf(r.self)
          /\ ret' = r.ret
          /\ dpc' = IF r.ret.kind = "error" THEN "raised" ELSE "done"
    /\ lastOp' = "score"
    /\ UNCHANGED <<order, nAdds, ngramVars, segVars, plaintext, shift, coded, cpc,
                   training_text, ciphertext, state, ak, abest, abest_score>>

NextPermutation == PdSuccessors \/ PdGoalTest \/ PdScore

SpecPermutation == InitPermutation /\ [][NextPermutation]_vars

\* ----------------------------------------------------------------- claims
Reads == {"getitem", "len", "sample"}

\* C1: whenever a read (p[o], len, sample) has returned, the total n_obs it
\* used equals the sum of the counts the count mapping holds at that moment,
\* for every default count.
C1_TotalIsSumAtRead ==
    (lastOp \in Reads /\ ret.kind # "error") => n_obs = SumCounts(dictionary)

\* C2: after N add calls on a fresh distribution, whatever its default count,
\* len returns N.
C2_LenIsNumberOfAdds ==
    lastOp = "len" => ret.val = nAdds

\* C3: on a distribution with no observation, p[o] returns 0.0 and sample()
\* returns None; neither raises.
C3_EmptyReadsAreSafe ==
    /\ (nAdds = 0 /\ lastOp = "getitem") => (ret.kind = "prob" /\ ret.num = 0)
    /\ (nAdds = 0 /\ lastOp = "sample") => ret.kind = "None"

\* The count of the n-gram g in the joint distribution.
JointCount(g) == IF g \in DOMAIN dictionary THEN dictionary[g] ELSE 0

\* The count of the word w in the conditional distribution of the prefix p.
CondCount(p, w) ==
    IF p \in DOMAIN cond_prob /\ w \in DOMAIN cond_prob[p].dictionary
    THEN cond_prob[p].dictionary[w]
    ELSE 0

\* C4: in every state of an NgramTextModel, each n-tuple g has the same count
\* in the joint distribution as its last word has in the conditional
\* distribution of its first n-1 words, and every count a conditional
\* distribution holds is the joint count of the n-gram it stands for.
C4_JointMirrorsConditional ==
    /\ \A g \in Tuples(Tok, n) :
         JointCount(g) = CondCount(Slice(g, 0, n - 1), g[n])
    /\ \A p \in DOMAIN cond_prob : \A w \in DOMAIN cond_prob[p].dictionary :
         cond_prob[p].dictionary[w] = JointCount(p \o <<w>>)
    /\ \A g \in DOMAIN dictionary : Len(g) = n

\* Two calls were made, the last an add_sequence, and three prefixes hold
\* counts of their own.
C4_Witness ==
    /\ nOps = 2
    /\ lastOp = "add_sequence"
    /\ n = 2
    /\ CondCount(<<"">>, "a") = 1
    /\ CondCount(<<"a">>, "b") = 2
    /\ CondCount(<<"b">>, "a") = 1

\* How often w follows c in the word list ws, the empty word preceding ws[1].
Follows(ws, c, w) ==
    Cardinality({k \in 1..Len(ws) :
        ws[k] = w /\ (IF k = 1 THEN "" ELSE ws[k - 1]) = c})

\* C5: after add_sequence(tokens) on a fresh NgramTextModel(2), the
\* conditional distribution of (c,) counts each word w as often as w follows
\* c in tokens (the empty word preceding the first token).
C5_BigramCounts ==
    (n = 2 /\ nOps = 1 /\ lastOp = "add_sequence")
        => \A c, w \in Tok : CondCount(<<c>>, w) = Follows(lastArg, c, w)

C7_GenerateTerminates ==
    (pc # "idle") ~> (pc = "idle" /\ ret.kind = "text" /\ Len(ret.val) = nwords)

\* The probability P gives the word w.
PValue(w) == <<DDValue(dictionary, dflt, w), n_obs>>

RECURSIVE Product(_)
Product(ws) == IF ws = <<>> THEN <<1, 1>> ELSE Mul(PValue(Head(ws)), Product(Tail(ws)))

RECURSIVE Flatten(_)
Flatten(ws) == IF ws = <<>> THEN <<>> ELSE Head(ws) \o Flatten(Tail(ws))

\* Every way of splitting t into non-empty contiguous words.
RECURSIVE Splits(_)
Splits(t) ==
    IF t = <<>> THEN {<<>>}
    ELSE UNION {{<<Slice(t, 0, k)>> \o rest : rest \in Splits(Slice(t, k, Len(t)))} :
                   k \in 1..Len(t)}

\* C8: viterbi_segment returns non-empty words whose concatenation is the
\* text, with the product of their probabilities, and no split of the text
\* has a greater product.
C8_SegmentIsBestSplit ==
    vpc = "done" =>
        /\ ret.kind = "seg"
        /\ Flatten(ret.val) = text
        /\ \A k \in 1..Len(ret.val) : ret.val[k] # <<>>
        /\ Same(<<ret.num, ret.den>>, Product(ret.val))
        /\ \A sp \in Splits(text) : Geq(<<ret.num, ret.den>>, Product(sp))

\* A three-letter text was split into two words of non-zero probability.
C8_Witness ==
    /\ vpc = "done"
    /\ Len(text) = 3
    /\ Len(ret.val) = 2
    /\ ret.num > 0

IsLower(c) == c \in 0..(NLetters - 1)

IsUpper(c) == c \in NLetters..(2 * NLetters - 1)

\* C9: rot13 of rot13 of a text is the text, and rot13 keeps every character
\* that is no letter, in its place, and the case of every letter.
C9_Rot13Involution ==
    /\ cpc = "rot13rot13" => coded = plaintext
    /\ cpc = "rot13" =>
         /\ Len(coded) = Len(plaintext)
         /\ \A k \in 1..Len(plaintext) :
              /\ plaintext[k] \in Others => coded[k] = plaintext[k]
              /\ IsLower(plaintext[k]) => IsLower(coded[k])
              /\ IsUpper(plaintext[k]) => IsUpper(coded[k])

\* rot13 was applied twice to a text of letters of both cases and others.
C9_Witness ==
    /\ cpc = "rot13rot13"
    /\ \E k \in 1..Len(plaintext) : IsLower(plaintext[k])
    /\ \E k \in 1..Len(plaintext) : IsUpper(plaintext[k])
    /\ \E k \in 1..Len(plaintext) : plaintext[k] \in Others

\* C10: shift_encode(text, n) puts, for every integer n, the letter of index
\* (i + n) mod 26 where the letter of index i was, in the same case.
C10_ShiftIsRotation ==
    cpc = "shift_encode" =>
        \A k \in 1..Len(plaintext) :
            /\ IsLower(plaintext[k]) => coded[k] = (plaintext[k] + shift) % NLetters
            /\ IsUpper(plaintext[k]) =>
                 coded[k] = NLetters + ((plaintext[k] - NLetters + shift) % NLetters)

\* The candidate of line 136 for the word text[j:i], with the final best.
Cand(i, j) == Mul(PValue(Slice(text, j, i)), best[j + 1])

\* The starts j of the candidates that reach the greatest value at i.
Maximal(i) == {j \in 0..(i - 1) : \A k \in 0..(i - 1) : Geq(Cand(i, j), Cand(i, k))}

Least(S) == CHOOSE x \in S : \A y \in S : x <= y

Greatest(S) == CHOOSE x \in S : \A y \in S : x >= y

\* C14: when two or more candidate last words ending at i reach the same
\* greatest candidate value, words[i] is the longest of them, the one with
\* the smallest start j.
C14_LongestTieWins ==
    vpc \in {"while", "done"} =>
        \A i \in 1..Len(text) :
            Cardinality(Maximal(i)) >= 2 => words[i + 1] = Slice(text, Least(Maximal(i)), i)

\* C14 as the code has it: when two or more candidates ending at i reach the
\* same greatest value, words[i] is the shortest of them, the one with the
\* greatest start j (the last one the inner loop meets).
C14_ShortestTieWins ==
    vpc \in {"while", "done"} =>
        \A i \in 1..Len(text) :
            Cardinality(Maximal(i)) >= 2 => words[i + 1] = Slice(text, Greatest(Maximal(i)), i)

\* Two candidates of non-zero value tied at the end of a text, and the
\* shorter word was recorded.
C14_Witness ==
    /\ vpc = "done"
    /\ Len(text) >= 2
    /\ Cardinality(Maximal(Len(text))) >= 2
    /\ best[Len(text) + 1][1] > 0
    /\ words[Len(text) + 1] = Slice(text, Greatest(Maximal(Len(text))), Len(text))

\* C15: with an unsmoothed model (default 0) that has an observation, every
\* word of more than one character that viterbi_segment returns was observed
\* (its count is not zero); a word of probability 0 is returned only as a
\* single character.
C15_LongWordsWereObserved ==
    (vpc = "done" /\ dflt = 0 /\ nAdds >= 1) =>
        \A k \in 1..Len(ret.val) :
            Len(ret.val[k]) > 1 => DDValue(dictionary, dflt, ret.val[k]) > 0

\* An unsmoothed model gave back an observed word of two characters next to
\* a single character that was never observed.
C15_Witness ==
    /\ vpc = "done"
    /\ dflt = 0
    /\ nAdds >= 1
    /\ \E k \in 1..Len(ret.val) : Len(ret.val[k]) > 1
    /\ \E k \in 1..Len(ret.val) :
         Len(ret.val[k]) = 1 /\ DDValue(dictionary, dflt, ret.val[k]) = 0

\* The product of the probabilities P2 gives the bigrams of str.
RECURSIVE BigramProduct(_)
BigramProduct(bis) ==
    IF bis = <<>> THEN <<1, 1>> ELSE Mul(PValue(Head(bis)), BigramProduct(Tail(bis)))

ScoreValue(str) == BigramProduct(bigrams(str))

\* The shifts whose candidate has the greatest score.
BestShifts ==
    {k \in 0..(NLetters - 1) :
        \A j \in 0..(NLetters - 1) :
            Geq(ScoreValue(shift_encode(ciphertext, k)), ScoreValue(shift_encode(ciphertext, j)))}

\* C11: for every ciphertext, the empty one included, decode returns the
\* candidate shift_encode(ciphertext, k), k in 0..25, of the greatest score
\* (the product of the smoothed probabilities of its bigrams), and of the
\* lowest k among those of the greatest score.
C11_DecodeReturnsFirstBest ==
    dpc \in {"done", "raised"} =>
        /\ ret.kind = "text"
        /\ ret.val = shift_encode(ciphertext, Least(BestShifts))

\* C11 for a decoder whose training text held a bigram: what decode returns
\* is the candidate of the greatest score and of the lowest shift.
C11_TrainedDecodeReturnsFirstBest ==
    (dpc \in {"done", "raised"} /\ nAdds >= 1) =>
        /\ ret.kind = "text"
        /\ ret.val = shift_encode(ciphertext, Least(BestShifts))

\* C12: successors(state) of a state with fewer than 26 letters assigned
\* yields exactly one successor, which is the state with one more letter
\* assigned (so that a search from the empty state meets the goal test after
\* exactly 26 steps).
C12_OneSuccessorOneMoreLetter ==
    (lastOp = "successors" /\ Cardinality(DOMAIN state) < NLetters) =>
        /\ ret.kind = "succs"
        /\ Len(ret.val) = 1
        /\ Cardinality(DOMAIN ret.val[1]) = Cardinality(DOMAIN state) + 1
        /\ \A c \in DOMAIN state : c \in DOMAIN ret.val[1] /\ ret.val[1][c] = state[c]

\* C13: for every ciphertext and every assignment, partial or not, score
\* raises nothing and returns a value that is at least 0 (and is 0 when a
\* word, letter or bigram of the candidate has probability 0).
C13_ScoreReturnsNonNegative ==
    lastOp = "score" =>
        /\ ret.kind = "prob"
        /\ ret.num >= 0
        /\ ret.den > 0

====
